---- MODULE Spec2Model ----
(***************************************************************************)
(* Model of the AI smart LED controller repository:                        *)
(*   - the Flask prediction service      (src/python/app.py)               *)
(*   - the offline training pipeline     (src/python/train_model.py)       *)
(*   - the ThingsBoard telemetry exporter(src/python/export_thingsboard.py)*)
(*                                                                         *)
(* Each program has its own specification over the shared variables:       *)
(* Spec (service), TrainSpec (pipeline), ExportSpec (exporter).            *)
(*                                                                         *)
(* Numbers read from JSON / CSV are floats; the model keeps them as        *)
(* fixed-point integers with one binary fractional digit (half units), so  *)
(* Fix(255) is 255.0 and Fix(255) + 1 is 255.5.  All quantities the code   *)
(* derives from them (quartiles, 1.5*IQR) are dyadic rationals, which the  *)
(* model compares exactly by cross-multiplication.                         *)
(***************************************************************************)
EXTENDS Integers, Sequences, FiniteSets, TLC

VARIABLES
    \* ---- shared file system ----
    artifact,     \* led_predictor.pkl: [st: absent|corrupt|valid, ver]
    \* ---- prediction service (app.py) ----
    model,        \* the module global `model`
    pc,           \* per request: position of the thread handling it
    kind,         \* per request: the endpoint it addresses
    loaded,       \* per request: value joblib.load returned, not yet stored
    resp,         \* the response sent last (by any thread)
    loads,        \* number of times a loaded object was stored into `model`
    fsEvents,     \* number of changes made to the artifact file by the environment
    \* ---- training pipeline (train_model.py) ----
    tstage,       \* position of the script
    csv,          \* ../data/thingsboard_history.csv as found on disk
    df,           \* the data frame `df`
    dfValid,      \* df as it left the validation stage (lines 87-89)
    dfIn,         \* df as it entered the validation stage
    exitStatus,   \* process exit status, -1 while running
    trace,        \* stages the run has gone through
    metrics,      \* evaluation result (observational)
    \* ---- telemetry exporter (export_thingsboard.py) ----
    estage,       \* position of the script
    ekey,         \* index into TELEMETRY_KEYS of the next key to fetch
    dfs,          \* the list `dfs` of fetched frames
    elog,         \* keys whose fetch error was logged
    csvOut,       \* the written output table
    eexit         \* exporter exit status, -1 while running

svcVars == <<model, pc, kind, loaded, resp, loads, fsEvents>>
trainVars == <<tstage, csv, df, dfValid, dfIn, exitStatus, trace, metrics>>
exportVars == <<estage, ekey, dfs, elog, csvOut, eexit>>
vars == <<artifact, svcVars, trainVars, exportVars>>

\* ------------------------------------------------------------------ bounds
NRequests == 2       \* requests the service receives, each handled by its own thread
MaxFsEvents == 1     \* changes the environment makes to the artifact file
MaxLoads == 2        \* the counter `loads` saturates here
Slack == 6           \* input tables have at least MinRows - Slack regular rows
Extra == 4           \* ... and at most MinRows + Extra
MaxLow == 4          \* rows with led = 0 added to an input table
MaxHigh == 3         \* rows with led = 255 added to an input table
MaxRecords == 2      \* records ThingsBoard returns for one telemetry key

\* --------------------------------------------------------------- numbers
Fix(i) == 2 * i
Min(a, b) == IF a <= b THEN a ELSE b
Max(a, b) == IF a >= b THEN a ELSE b

\* int(x) of a float held in half units: truncation toward zero.
IntTrunc(h) == IF h >= 0 THEN h \div 2 ELSE -((-h) \div 2)

\* Clamp with the upper limit forgotten (fault injected to test PredictOutcomes)
ClampNoUpper(x) == Max(0, x)
\* app.py line 69: max(0, min(255, int(pred)))
Clamp(x) == Max(0, Min(255, x))

\* ================================================================ app.py
\* app.run (line 97) serves every request in a thread of its own.
Threads == 1 .. NRequests

\* `model = None` (line 15) and the objects joblib.load returns.  Two loads
\* give two objects; an object is identified by the thread that loaded it
\* and the version of the file it was read from.
NoModel == [isNone |-> TRUE, by |-> 0, ver |-> 0]
Obj(t, v) == [isNone |-> FALSE, by |-> t, ver |-> v]

Absent == [st |-> "absent", ver |-> 0]
Corrupt == [st |-> "corrupt", ver |-> 0]
Valid(v) == [st |-> "valid", ver |-> v]

\* os.path.exists(MODEL_PATH), lines 22 and 42
Exists(a) == a.st # "absent"

\* ---- request bodies of POST /predict
Missing == [k |-> "missing", v |-> 0]
Null == [k |-> "null", v |-> 0]
Text == [k |-> "text", v |-> 0]
Num(h) == [k |-> "num", v |-> h]
NoBody == [json |-> FALSE, ldr |-> Missing, motion |-> Missing]
Body(l, m) == [json |-> TRUE, ldr |-> l, motion |-> m]
Bodies ==
    {NoBody, Body(Missing, Missing), Body(Missing, Num(Fix(1))),
     Body(Num(Fix(100)), Num(Fix(1))), Body(Text, Num(Fix(1))), Body(Num(Fix(100)), Null)}

\* data.get(key, 0), lines 64-65
Get(field) == IF field.k = "missing" THEN Num(Fix(0)) ELSE field

\* float(x) raises on None (TypeError) and on non-numeric text (ValueError)
FloatRaises(x) == x.k \in {"null", "text"}

\* What model.predict(df)[0] may give: a float, NaN, or an exception.
RawOutputs ==
    {[k |-> "num", v |-> h] : h \in {-3, 255, Fix(255), Fix(300)}}
    \cup {[k |-> "nan", v |-> 0], [k |-> "raise", v |-> 0]}

NoRaw == [k |-> "num", v |-> 0]
NoResp == [kind |-> "none", code |-> 0, body |-> "", led |-> 0,
           obs |-> "none", req |-> NoBody, raw |-> NoRaw,
           feat |-> <<0, 0>>, used |-> NoModel]

Say(k, c, b, o) == [NoResp EXCEPT !.kind = k, !.code = c, !.body = b, !.obs = o]

\* lines 63-65 raise: get_json() gave no object, or float() rejects a field
BodyRaises(b) == ~b.json \/ FloatRaises(Get(b.ldr)) \/ FloatRaises(Get(b.motion))

\* lines 62-77 of predict(): the try block, given the request body b, the value m
\* of the global `model` read at line 68 and the model's output r.
TryBlock(b, m, r) ==
    LET err(why) == [Say("predict", 500, "error", why) EXCEPT
                        !.req = b, !.used = m, !.raw = r]
    IN  IF BodyRaises(b) THEN err("bad body")
        ELSE IF m.isNone THEN err("model is None")
        ELSE IF r.k = "raise" THEN err("predict raised")
        ELSE IF r.k = "nan" THEN err("int() raised")
        ELSE [Say("predict", 200, "led", "ok") EXCEPT
                 !.req = b, !.raw = r, !.used = m,
                 !.feat = <<Get(b.ldr).v, Get(b.motion).v>>,
                 !.led = Clamp(IntTrunc(r.v))]

ServiceInit ==
    /\ model = NoModel
    /\ pc = [t \in Threads |-> "new"]
    /\ kind = [t \in Threads |-> "none"]
    /\ loaded = [t \in Threads |-> NoModel]
    /\ resp = NoResp
    /\ loads = 0
    /\ fsEvents = 0

\* ---- request t arrives (requests are numbered in the order they arrive)
Start(t, k, first) ==
    /\ pc[t] = "new"
    /\ IF t = 1 THEN TRUE ELSE pc[t - 1] # "new"
    /\ pc' = [pc EXCEPT ![t] = first]
    /\ kind' = [kind EXCEPT ![t] = k]
    /\ UNCHANGED <<artifact, model, loaded, resp, loads, fsEvents>>
    /\ UNCHANGED <<trainVars, exportVars>>

StartStatus(t) == Start(t, "status", "st_exists")

StartPredict(t) == Start(t, "predict", "pr_check")

StartRoot(t) == Start(t, "root", "root")

Finish(t, r) ==
    /\ resp' = r
    /\ pc' = [pc EXCEPT ![t] = "done"]
    /\ kind' = [kind EXCEPT ![t] = "none"]

\* status(), line 42: if os.path.exists(MODEL_PATH) ... else "not_ready", 404
StatusExists(t) ==
    /\ pc[t] = "st_exists"
    /\ IF Exists(artifact)
         THEN pc' = [pc EXCEPT ![t] = "st_model"] /\ UNCHANGED <<resp, kind>>
         ELSE Finish(t, Say("status", 404, "not_ready", "none"))
    /\ UNCHANGED <<artifact, model, loaded, loads, fsEvents, trainVars, exportVars>>

\* status(), lines 43-45: if model is None: load_model(); return "ready", 200
StatusCheckModel(t) ==
    /\ pc[t] = "st_model"
    /\ IF model.isNone
         THEN pc' = [pc EXCEPT ![t] = "lm_exists"] /\ UNCHANGED <<resp, kind>>
         ELSE Finish(t, Say("status", 200, "ready", "cached"))
    /\ UNCHANGED <<artifact, model, loaded, loads, fsEvents, trainVars, exportVars>>

\* predict(), line 58: if model is None: (call load_model)
PredictCheck(t) ==
    /\ pc[t] = "pr_check"
    /\ pc' = [pc EXCEPT ![t] = IF model.isNone THEN "lm_exists" ELSE "pr_try"]
    /\ UNCHANGED <<artifact, model, kind, loaded, resp, loads, fsEvents, trainVars, exportVars>>

\* load_model() returns `ok` to its caller:
\*   status(), lines 44-45: the result is dropped, "ready", 200 follows;
\*   predict(), lines 59-60: if not load_model(): 404 "Model not available".
Return(t, ok) ==
    IF kind[t] = "status"
      THEN Finish(t, Say("status", 200, "ready", IF ok THEN "loaded" ELSE "failed"))
      ELSE IF ok
        THEN pc' = [pc EXCEPT ![t] = "pr_try"] /\ UNCHANGED <<resp, kind>>
        ELSE Finish(t, Say("predict", 404, "Model not available", "failed"))

\* load_model(), line 22 and lines 31-33
LmExists(t) ==
    /\ pc[t] = "lm_exists"
    /\ IF Exists(artifact)
         THEN pc' = [pc EXCEPT ![t] = "lm_load"] /\ UNCHANGED <<resp, kind>>
         ELSE Return(t, FALSE)
    /\ UNCHANGED <<artifact, model, loaded, loads, fsEvents, trainVars, exportVars>>

\* load_model(), line 24, right-hand side: joblib.load(MODEL_PATH) reads the
\* file; an absent or unreadable file raises (line 27).
LmLoad(t) ==
    /\ pc[t] = "lm_load"
    /\ IF artifact.st = "valid"
         THEN /\ loaded' = [loaded EXCEPT ![t] = Obj(t, artifact.ver)]
              /\ pc' = [pc EXCEPT ![t] = "lm_store"]
         ELSE /\ pc' = [pc EXCEPT ![t] = "lm_except"]
              /\ UNCHANGED loaded
    /\ UNCHANGED <<artifact, model, kind, resp, loads, fsEvents, trainVars, exportVars>>

\* load_model(), line 24, the store into the global, and line 26
LmStore(t) ==
    /\ pc[t] = "lm_store"
    /\ model' = loaded[t]
    /\ loaded' = [loaded EXCEPT ![t] = NoModel]
    /\ loads' = Min(loads + 1, MaxLoads)
    /\ Return(t, TRUE)
    /\ UNCHANGED <<artifact, fsEvents, trainVars, exportVars>>

\* load_model(), lines 27-30: model = None; return False
LmExcept(t) ==
    /\ pc[t] = "lm_except"
    /\ model' = NoModel
    /\ Return(t, FALSE)
    /\ UNCHANGED <<artifact, loaded, loads, fsEvents, trainVars, exportVars>>

\* predict(), lines 62-77
PredictTry(t) ==
    /\ pc[t] = "pr_try"
    /\ \E b \in Bodies :
         IF BodyRaises(b) \/ model.isNone
           THEN Finish(t, TryBlock(b, model, NoRaw))
           ELSE \E r \in RawOutputs : Finish(t, TryBlock(b, model, r))
    /\ UNCHANGED <<artifact, model, loaded, loads, fsEvents, trainVars, exportVars>>

\* root(), lines 84-89
Root(t) ==
    /\ pc[t] = "root"
    /\ Finish(t, Say("root", 200, IF model.isNone THEN "model_loaded=false"
                                                    ELSE "model_loaded=true", "none"))
    /\ UNCHANGED <<artifact, model, loaded, loads, fsEvents, trainVars, exportVars>>

\* ---- the environment of the service: the artifact file changes
\* train_model.py line 165 (re)writes the file
ArtifactWritten ==
    /\ fsEvents < MaxFsEvents
    /\ artifact' = Valid(fsEvents + 1)
    /\ fsEvents' = fsEvents + 1
    /\ UNCHANGED <<model, pc, kind, loaded, resp, loads, trainVars, exportVars>>

ArtifactDeleted ==
    /\ fsEvents < MaxFsEvents
    /\ Exists(artifact)
    /\ artifact' = Absent
    /\ fsEvents' = fsEvents + 1
    /\ UNCHANGED <<model, pc, kind, loaded, resp, loads, trainVars, exportVars>>

\* a truncated or half-written file
ArtifactCorrupted ==
    /\ fsEvents < MaxFsEvents
    /\ artifact.st = "valid"
    /\ artifact' = Corrupt
    /\ fsEvents' = fsEvents + 1
    /\ UNCHANGED <<model, pc, kind, loaded, resp, loads, trainVars, exportVars>>

\* ======================================================== train_model.py
MinRows == 50
MaxLdr == 4095
MaxLed == 255

Required == {"ldr", "motion", "led"}

\* A row of the table: the three cells as numbers, `na` the columns whose cell
\* is empty and `txt` the columns whose cell is text that is not a number.
Row(l, m, d) == [ldr |-> l, motion |-> m, led |-> d, na |-> {}, txt |-> {}]

\* ---- the input tables the runs are given
LedShapes == {"flat", "narrow", "wide"}
ShapeLed(shape, i) ==
    CASE shape = "flat" -> Fix(100)
      [] shape = "narrow" -> Fix(100 + 5 * (i % 3))
      [] OTHER -> Fix((i * 37) % (MaxLed + 1))

Regular(shape, n) == [i \in 1 .. n |-> Row(Fix(i), Fix(i % 2), ShapeLed(shape, i))]
LowRows(k) == [i \in 1 .. k |-> Row(Fix(1000 + i), Fix(i % 2), Fix(0))]
HighRows(k) == [i \in 1 .. k |-> Row(Fix(2000 + i), Fix(i % 2), Fix(MaxLed))]

DirtyKinds == {"none", "nan", "dup", "range", "edge"}
DirtyRows(d) ==
    CASE d = "nan" ->
            << [Row(Fix(3001), Fix(0), 0) EXCEPT !.na = {"led"}],
               [Row(0, Fix(1), Fix(90)) EXCEPT !.txt = {"ldr"}],
               [Row(Fix(3002), Fix(1), Fix(100)) EXCEPT !.na = {"extra"}] >>
      [] d = "dup" ->
            << Row(Fix(1), Fix(1), ShapeLed("flat", 1)), Row(Fix(3003), Fix(0), Fix(100)),
               Row(Fix(3003), Fix(0), Fix(100)) >>
      [] d = "range" ->
            << Row(-1, Fix(0), Fix(100)), Row(Fix(MaxLdr) + 1, Fix(0), Fix(100)),
               Row(Fix(3004), Fix(2), Fix(100)), Row(Fix(3005), 1, Fix(100)),
               Row(Fix(3006), Fix(-1), Fix(100)), Row(Fix(3007), Fix(0), -1),
               Row(Fix(3008), Fix(1), Fix(MaxLed) + 1), Row(Fix(3009), Fix(1), Fix(300)) >>
      [] d = "edge" ->
            << Row(Fix(0), Fix(0), Fix(0)), Row(Fix(MaxLdr), Fix(1), Fix(MaxLed)),
               Row(Fix(3010), Fix(1), Fix(MaxLed) - 1), Row(1, Fix(0), 1) >>
      [] OTHER -> << >>

Table(shape, n, kLow, kHigh, dirty) ==
    Regular(shape, n) \o LowRows(kLow) \o DirtyRows(dirty) \o HighRows(kHigh)

GoodColumns == {"ts", "ldr", "motion", "led"}
File(state, cols, rows) == [state |-> state, cols |-> cols, rows |-> rows]
SmallTable == Table("flat", 2, 1, 0, "none")

BaseSizes == (MinRows - Slack) .. (MinRows + Extra)

InputFiles ==
    { File("ok", GoodColumns, Table(shape, n, kLow, kHigh, "none")) :
        shape \in LedShapes, n \in BaseSizes, kLow \in 0 .. MaxLow, kHigh \in 0 .. MaxHigh }
    \cup { File("ok", GoodColumns, Table(shape, n, kLow, 0, dirty)) :
        shape \in LedShapes, n \in BaseSizes, kLow \in {0, MaxLow},
        dirty \in DirtyKinds \ {"none"} }
    \cup { File("ok", {"Unnamed: 0", "ldr", "motion", "led", "extra"},
                Table("narrow", n, kLow, 1, "nan")) :
             n \in (MinRows - 2) .. (MinRows + 1), kLow \in 0 .. MaxLow }
    \cup { File("ok", cols, SmallTable) :
             cols \in {{"ts", "ldr", "motion"}, {"ts"}, {"ldr", "led", "LED", "Motion"}, {}} }
    \cup { File("missing", {}, << >>), File("unreadable", {}, << >>) }

\* ---- the stages
Reached(s) == \E i \in DOMAIN trace : trace[i] = s

Exit(code) == tstage' = "exit" /\ exitStatus' = code
Goto(s) == tstage' = s /\ trace' = Append(trace, s) /\ UNCHANGED exitStatus

\* lines 18-27: pd.read_csv, FileNotFoundError and any other exception exit 1
LoadData ==
    /\ tstage = "load"
    /\ IF csv.state = "ok"
         THEN df' = csv.rows /\ Goto("schema")
         ELSE Exit(1) /\ UNCHANGED <<df, trace>>
    /\ UNCHANGED <<artifact, csv, dfValid, dfIn, metrics, svcVars, exportVars>>

\* line 47: missing_cols
MissingCols(cols) == Required \ cols

\* lines 41-50: drop ts / Unnamed: 0, then the required-column check
SchemaGuard ==
    /\ tstage = "schema"
    /\ IF MissingCols(csv.cols \ {"ts", "Unnamed: 0"}) # {}
         THEN Exit(1) /\ UNCHANGED trace
         ELSE Goto("clean")
    /\ UNCHANGED <<artifact, csv, df, dfValid, dfIn, metrics, svcVars, exportVars>>

\* line 53: df[required_cols]
Project(rows) ==
    [i \in DOMAIN rows |-> [rows[i] EXCEPT !.na = @ \cap Required, !.txt = @ \cap Required]]
\* lines 61 and 69: df.dropna()
DropNa(rows) == LET ok(r) == r.na = {} IN SelectSeq(rows, ok)
\* lines 66-67: pd.to_numeric(errors='coerce')
ToNumeric(rows) == [i \in DOMAIN rows |-> [rows[i] EXCEPT !.na = @ \cup rows[i].txt, !.txt = {}]]
\* line 74: df.drop_duplicates() keeps the first of equal rows
RECURSIVE DropDuplicates(_)
DropDuplicates(rows) ==
    IF rows = << >> THEN << >>
    ELSE LET n == Len(rows)
             init == DropDuplicates(SubSeq(rows, 1, n - 1))
         IN  IF \E i \in 1 .. n - 1 : rows[i] = rows[n] THEN init ELSE Append(init, rows[n])

\* lines 53-75
Cleaned(rows) ==
    LET p == Project(rows)
        a == IF \E i \in DOMAIN p : p[i].na # {} THEN DropNa(p) ELSE p
    IN  DropDuplicates(DropNa(ToNumeric(a)))

CleanData ==
    /\ tstage = "clean"
    /\ df' = Cleaned(df)
    /\ Goto("validate")
    /\ UNCHANGED <<artifact, csv, dfValid, dfIn, metrics, svcVars, exportVars>>

ValidLdr(r) == r.ldr >= Fix(0) /\ r.ldr <= Fix(MaxLdr)
ValidMotion(r) == r.motion \in {Fix(0), Fix(1)}
\* ValidLed with the upper limit forgotten (fault injected to test ValidationInvariant)
ValidLedNoUpper(r) == r.led >= Fix(0)
ValidLed(r) == r.led >= Fix(0) /\ r.led <= Fix(MaxLed)

\* lines 87-89: three successive boolean-mask selections
Validated(rows) == SelectSeq(SelectSeq(SelectSeq(rows, ValidLdr), ValidMotion), ValidLed)

ValidateData ==
    /\ tstage = "validate"
    /\ dfIn' = df
    /\ df' = Validated(df)
    /\ dfValid' = df'
    /\ Goto("count")
    /\ UNCHANGED <<artifact, csv, metrics, svcVars, exportVars>>

\* TooFew with <= for < and with the limit one too low (faults injected to test
\* AbortOnInsufficiency and FitHasEnoughRows)
TooFewLe(n) == n <= MinRows
TooFewOffByOne(n) == n < MinRows - 1
\* line 91: if len(df) < 50
TooFew(n) == n < MinRows

\* lines 91-96
CountCheck ==
    /\ tstage = "count"
    /\ IF TooFew(Len(df)) THEN Exit(1) /\ UNCHANGED trace ELSE Goto("outlier")
    /\ UNCHANGED <<artifact, csv, df, dfValid, dfIn, metrics, svcVars, exportVars>>

\* ---- the outlier stage
Leds(rows) == [i \in DOMAIN rows |-> rows[i].led]

\* sorted(vals)[k], k counted from 0
Kth(vals, k) ==
    CHOOSE v \in {vals[i] : i \in DOMAIN vals} :
        /\ Cardinality({i \in DOMAIN vals : vals[i] < v}) <= k
        /\ k < Cardinality({i \in DOMAIN vals : vals[i] <= v})

\* 4 * Series.quantile(num/4): linear interpolation between the order
\* statistics around position (num/4) * (n - 1)
Quantile4(vals, num) ==
    LET pos4 == num * (Len(vals) - 1)
        lo == pos4 \div 4
        r == pos4 % 4
        a == Kth(vals, lo)
        b == IF r = 0 THEN a ELSE Kth(vals, lo + 1)
    IN  4 * a + r * (b - a)

\* lines 103-105, times 8: low, high = Q1 - 1.5 * IQR, Q3 + 1.5 * IQR
Fences8(vals) ==
    LET q1 == Quantile4(vals, 1)
        q3 == Quantile4(vals, 3)
    IN  [low |-> 2 * q1 - 3 * (q3 - q1), high |-> 2 * q3 + 3 * (q3 - q1)]

\* RemoveGuard with <= for < (fault injected to test OutlierRemovalGuard)
RemoveGuardLe(k, n) == k > 0 /\ 10 * k <= n
\* line 108: len(outliers) > 0 and len(outliers) < len(df) * 0.1.  For integers
\* k and n the double product n * 0.1 compares with k as n / 10 does.
RemoveGuard(k, n) == k > 0 /\ 10 * k < n

\* lines 103-112
OutlierStage(rows) ==
    LET f == Fences8(Leds(rows))
        out(r) == 8 * r.led < f.low \/ 8 * r.led > f.high
        keep(r) == 8 * r.led >= f.low /\ 8 * r.led <= f.high
        outliers == SelectSeq(rows, out)
    IN  IF RemoveGuard(Len(outliers), Len(rows)) THEN SelectSeq(rows, keep) ELSE rows

OutlierDetection ==
    /\ tstage = "outlier"
    /\ df' = OutlierStage(df)
    /\ Goto("fit")
    /\ UNCHANGED <<artifact, csv, dfValid, dfIn, metrics, svcVars, exportVars>>

\* lines 125-144: split and model.fit
SplitAndFit ==
    /\ tstage = "fit"
    /\ Goto("evaluate")
    /\ UNCHANGED <<artifact, csv, df, dfValid, dfIn, metrics, svcVars, exportVars>>

\* lines 148-161: MAE, R2 and feature importances are printed
Evaluate ==
    /\ tstage = "evaluate"
    /\ metrics' \in {"good", "poor"}
    /\ Goto("save")
    /\ UNCHANGED <<artifact, csv, df, dfValid, dfIn, svcVars, exportVars>>

\* SaveModel behind a quality gate (fault injected to test SavedIffFit)
SaveModelGated ==
    /\ tstage = "save"
    /\ IF metrics = "good"
         THEN artifact' = Valid(artifact.ver + 1) /\ Goto("samples")
         ELSE Exit(0) /\ UNCHANGED <<artifact, trace>>
    /\ UNCHANGED <<csv, df, dfValid, dfIn, metrics, svcVars, exportVars>>

\* lines 164-171: joblib.dump, exit 1 when it raises (the file it was writing
\* is then as it was, or truncated)
SaveModel ==
    /\ tstage = "save"
    /\ \/ artifact' = Valid(artifact.ver + 1) /\ Goto("samples")
       \/ artifact' \in {artifact, Corrupt} /\ Exit(1) /\ trace' = Append(trace, "dump raised")
    /\ UNCHANGED <<csv, df, dfValid, dfIn, metrics, svcVars, exportVars>>

\* lines 173-187
SamplePredictions ==
    /\ tstage = "samples"
    /\ Exit(0)
    /\ UNCHANGED <<artifact, csv, df, dfValid, dfIn, metrics, trace, svcVars, exportVars>>

TrainIdle ==
    /\ tstage = "off" /\ csv = File("missing", {}, << >>) /\ df = << >> /\ dfValid = << >>
    /\ dfIn = << >> /\ exitStatus = -1 /\ trace = << >> /\ metrics = "none"


\* ================================================= export_thingsboard.py
\* line 10
TELEMETRY_KEYS == <<"ldr", "motion", "led">>

\* What the GET of one key may bring: records, a 2xx answer without the key,
\* a non-2xx answer (raise_for_status raises), or anything else that raises
\* (no connection, a body that is not JSON, an empty record list).
FetchOutcomes ==
    {[k |-> "data", n |-> n] : n \in 1 .. MaxRecords}
    \cup {[k |-> o, n |-> 0] : o \in {"nodata", "http_error", "other_error"}}

Frame(tsType, cols, n) == [tsType |-> tsType, cols |-> cols, rows |-> n]
NoFrame == Frame("none", << >>, 0)

FetchRaises(o) == o.k \in {"http_error", "other_error"}

\* fetch_telemetry, lines 16-38.  Line 32 builds an empty frame whose columns
\* have dtype object; line 37 makes ts a datetime64 column.
FetchTelemetry(key, o) ==
    IF o.k = "nodata" THEN Frame("object", <<"ts", key>>, 0)
    ELSE Frame("datetime", <<"ts", key>>, o.n)

ExportInit ==
    /\ estage = "fetch" /\ ekey = 1 /\ dfs = << >> /\ elog = << >>
    /\ csvOut = NoFrame /\ eexit = -1

ExportIdle ==
    /\ estage = "off" /\ ekey = 1 /\ dfs = << >> /\ elog = << >>
    /\ csvOut = NoFrame /\ eexit = -1

\* lines 42-48, one iteration
FetchKey ==
    /\ estage = "fetch"
    /\ ekey <= Len(TELEMETRY_KEYS)
    /\ \E o \in FetchOutcomes :
         IF FetchRaises(o)
           THEN elog' = Append(elog, TELEMETRY_KEYS[ekey]) /\ UNCHANGED dfs
           ELSE dfs' = Append(dfs, FetchTelemetry(TELEMETRY_KEYS[ekey], o)) /\ UNCHANGED elog
    /\ ekey' = ekey + 1
    /\ UNCHANGED <<estage, csvOut, eexit, artifact, svcVars, trainVars>>

\* lines 51-53
CheckFetched ==
    /\ estage = "fetch"
    /\ ekey > Len(TELEMETRY_KEYS)
    /\ IF Len(dfs) = 0
         THEN estage' = "exit" /\ eexit' = 1
         ELSE estage' = "merge" /\ UNCHANGED eexit
    /\ UNCHANGED <<ekey, dfs, elog, csvOut, artifact, svcVars, trainVars>>

\* pd.merge_asof(left, right, on="ts", tolerance=Timedelta): the two ts columns
\* must have the same dtype and, with a tolerance, a datetime or numeric one;
\* otherwise it raises MergeError.  The result has the rows of `left`.
MergeRaises(left, right) == ~(left.tsType = "datetime" /\ right.tsType = "datetime")
MergeAsof(left, right) == Frame(left.tsType, left.cols \o Tail(right.cols), left.rows)

RECURSIVE MergeFrom(_, _, _)
\* lines 56-57 from dfs[i] on; "raised" when a merge raises
MergeFrom(merged, frames, i) ==
    IF i > Len(frames) THEN merged
    ELSE IF MergeRaises(merged, frames[i]) THEN Frame("raised", << >>, 0)
    ELSE MergeFrom(MergeAsof(merged, frames[i]), frames, i + 1)

\* lines 55-62; an exception nothing catches ends the process with status 1
MergeAndSave ==
    /\ estage = "merge"
    /\ LET merged == MergeFrom(dfs[1], dfs, 2)
       IN  IF merged.tsType = "raised"
             THEN estage' = "exit" /\ eexit' = 1 /\ UNCHANGED csvOut
             ELSE estage' = "done" /\ eexit' = 0 /\ csvOut' = merged
    /\ UNCHANGED <<ekey, dfs, elog, artifact, svcVars, trainVars>>

\* ======================================================= specifications
ArtifactInit == artifact \in {Absent, Corrupt, Valid(0)}

Init == ArtifactInit /\ ServiceInit /\ TrainIdle /\ ExportIdle

Next ==
    \/ \E t \in Threads : StartStatus(t)
    \/ \E t \in Threads : StartPredict(t)
    \/ \E t \in Threads : StartRoot(t)
    \/ \E t \in Threads : StatusExists(t)
    \/ \E t \in Threads : StatusCheckModel(t)
    \/ \E t \in Threads : PredictCheck(t)
    \/ \E t \in Threads : PredictTry(t)
    \/ \E t \in Threads : LmExists(t)
    \/ \E t \in Threads : LmLoad(t)
    \/ \E t \in Threads : LmStore(t)
    \/ \E t \in Threads : LmExcept(t)
    \/ \E t \in Threads : Root(t)
    \/ ArtifactWritten
    \/ ArtifactDeleted
    \/ ArtifactCorrupted

Spec == Init /\ [][Next]_vars

TrainInit ==
    /\ artifact \in {Absent, Valid(0)}
    /\ ServiceInit /\ ExportIdle
    /\ csv \in InputFiles
    /\ tstage = "load" /\ df = << >> /\ dfValid = << >> /\ dfIn = << >>
    /\ exitStatus = -1 /\ trace = << >> /\ metrics = "none"

TrainNext ==
    \/ LoadData \/ SchemaGuard \/ CleanData \/ ValidateData \/ CountCheck
    \/ OutlierDetection \/ SplitAndFit \/ Evaluate \/ SaveModel \/ SamplePredictions

TrainSpec == TrainInit /\ [][TrainNext]_vars

ExportStart == artifact = Absent /\ ServiceInit /\ TrainIdle /\ ExportInit

ExportNext == FetchKey \/ CheckFetched \/ MergeAndSave

ExportSpec == ExportStart /\ [][ExportNext]_vars


\* ================================================================ claims

\* ---- C1.  Claim: with the artifact present and unchanged, however the
\* check-then-load steps of concurrent /status and /predict requests
\* interleave, a loaded model is assigned to the global at most once.
LazyLoadIdempotent == (artifact = Valid(0) /\ fsEvents = 0) => loads <= 1

\* ---- C2.  Claim: /status answers "ready" (200) exactly when the artifact
\* exists and the service holds a model loaded from it (found cached, or loaded
\* by this request), and "not_ready" (404) otherwise.  Stated for the runs in
\* which the artifact file is left alone, whatever its state.
StatusReadyIffLoaded ==
    (resp.kind = "status" /\ fsEvents = 0) =>
        /\ resp.body = "ready" <=> resp.obs \in {"cached", "loaded"}
        /\ resp.body = "not_ready" <=> resp.obs \notin {"cached", "loaded"}
        /\ resp.code = (IF resp.body = "ready" THEN 200 ELSE 404)

\* ---- C3.  Every /predict response is one of: 404 "Model not available",
\* sent when the model was None and the load failed, before the body is read;
\* 500 when the body, the coercion or the model invocation raised; 200 with
\* led the model's output truncated and clamped, an integer in 0..255, the
\* missing fields passed to the model as 0.
PredictOutcomes ==
    resp.kind = "predict" =>
        LET raised == \/ BodyRaises(resp.req)
                      \/ resp.used.isNone
                      \/ resp.raw.k # "num"
            v == resp.raw.v
        IN  \/ /\ resp.code = 404 /\ resp.body = "Model not available"
               /\ resp.obs = "failed" /\ resp.req = NoBody /\ resp.used = NoModel
            \/ /\ resp.code = 500 /\ resp.body = "error" /\ raised
            \/ /\ resp.code = 200 /\ resp.body = "led" /\ ~raised
               /\ resp.led \in 0 .. 255
               /\ v < 0 => resp.led = 0
               /\ v >= Fix(255) => resp.led = 255
               /\ (v >= 0 /\ v < Fix(255)) => (Fix(resp.led) <= v /\ v < Fix(resp.led + 1))
               /\ resp.req.ldr = Missing => resp.feat[1] = 0
               /\ resp.req.motion = Missing => resp.feat[2] = 0
               /\ resp.req.ldr # Missing => resp.feat[1] = resp.req.ldr.v
               /\ resp.req.motion # Missing => resp.feat[2] = resp.req.motion.v

PredictClampedWitness ==
    /\ resp.kind = "predict" /\ resp.code = 200
    /\ resp.raw.v = Fix(300) /\ resp.led = 255
    /\ resp.req.ldr = Missing /\ resp.req.motion = Num(Fix(1))

\* ---- C9.  Claim: once a model is cached, no step of any request and no
\* change of the artifact file empties the cache or replaces the object.
CacheNeverReverts == [][~model.isNone => model' = model]_vars

\* ---- C4.  After validation every row of df has 0 <= ldr <= 4095,
\* motion in {0, 1} and 0 <= led <= 255, at every later stage; the validated
\* table is the table that entered validation without the rows that break
\* a constraint, and its rows are unmodified.
IsTrainingSample(r) ==
    /\ r.ldr \in Fix(0) .. Fix(4095)
    /\ r.motion = Fix(0) \/ r.motion = Fix(1)
    /\ r.led \in Fix(0) .. Fix(255)

ValidationInvariant ==
    Reached("count") =>
        /\ \A i \in DOMAIN df : IsTrainingSample(df[i])
        /\ \A i \in DOMAIN df : \E j \in DOMAIN dfIn : df[i] = dfIn[j]
        /\ dfValid = SelectSeq(dfIn, IsTrainingSample)

ValidationDropsWitness ==
    /\ Reached("fit")
    /\ \E i \in DOMAIN dfIn : dfIn[i].led = Fix(255) + 1
    /\ \E i \in DOMAIN dfIn : dfIn[i].motion = 1
    /\ Len(dfValid) < Len(dfIn)

\* ---- C5.  A run whose validated table has fewer than 50 rows exits with
\* status 1 at the row-count check, never reaching the outlier, fit or save
\* stage; a run with 50 rows or more goes on to the outlier stage and to fit.
Terminated == tstage = "exit"

AbortOnInsufficiency ==
    (Reached("count") /\ tstage # "count") =>
        IF Len(dfValid) < 50
          THEN /\ Terminated /\ exitStatus = 1
               /\ ~Reached("outlier") /\ ~Reached("fit") /\ ~Reached("save")
               /\ artifact \in {Absent, Valid(0)}
          ELSE /\ Reached("outlier")
               /\ Terminated => Reached("fit")

AbortWith49Witness == Terminated /\ Reached("count") /\ Len(dfValid) = 49 /\ exitStatus = 1

\* ---- C6.  With the outliers being the rows whose led is below
\* Q1 - 1.5 IQR or above Q3 + 1.5 IQR, the outlier stage removes exactly
\* those rows when there are some and fewer than 10% of the rows; otherwise
\* (none, or 10% and more) it leaves the table as it was.
IsOutlier(r, rows) ==
    LET f == Fences8(Leds(rows)) IN 8 * r.led < f.low \/ 8 * r.led > f.high

OutlierRemovalGuard ==
    Reached("fit") =>
        LET f == Fences8(Leds(dfValid))
            isOut(r) == 8 * r.led < f.low \/ 8 * r.led > f.high
            notOut(r) == ~isOut(r)
            k == Cardinality({i \in DOMAIN dfValid : isOut(dfValid[i])})
        IN  IF k > 0 /\ 10 * k < Len(dfValid)
              THEN df = SelectSeq(dfValid, notOut) /\ Len(df) = Len(dfValid) - k
              ELSE df = dfValid

ExactlyTenPercentWitness ==
    /\ Reached("fit")
    /\ Len(dfValid) = 50
    /\ Cardinality({i \in DOMAIN dfValid : IsOutlier(dfValid[i], dfValid)}) = 5
    /\ df = dfValid

\* ---- C7.  The artifact is written only by the save stage of a run whose
\* fit completed: a run ended by a setup error (file missing or unreadable,
\* required column missing, fewer than 50 valid rows) leaves it untouched; a
\* run whose fit completed calls joblib.dump whatever the metrics and exits
\* with status 1 when the dump raises.
FitCompleted == Reached("evaluate")
DumpCalled == Reached("samples") \/ Reached("dump raised")

SavedIffFitState ==
    /\ (Terminated /\ ~FitCompleted) => (exitStatus = 1 /\ ~DumpCalled)
    /\ ~FitCompleted => artifact \in {Absent, Valid(0)}
    /\ (Terminated /\ FitCompleted) => DumpCalled
    /\ Reached("dump raised") => (Terminated /\ exitStatus = 1)
    /\ Reached("samples") => artifact.st = "valid" /\ artifact.ver = 1
    /\ (Terminated /\ Reached("samples")) => exitStatus = 0

SavedIffFit ==
    /\ []SavedIffFitState
    /\ [][artifact' # artifact => (tstage = "save" /\ FitCompleted)]_vars

SavedDespitePoorMetricsWitness ==
    Terminated /\ metrics = "poor" /\ Reached("samples") /\ artifact = Valid(1)

\* ---- C10.  The row count is checked once, between validation and the
\* outlier stage; the table that reaches split/fit holds more than 90% of the
\* validated rows, at least 46 rows, all within the validation ranges.
FitHasEnoughRows ==
    Reached("fit") =>
        /\ Cardinality({i \in DOMAIN trace : trace[i] = "count"}) = 1
        /\ 10 * Len(df) > 9 * Len(dfValid)
        /\ Len(df) >= 46
        /\ \A i \in DOMAIN df : IsTrainingSample(df[i])

FitWith46Witness == Reached("fit") /\ Len(dfValid) = 50 /\ Len(df) = 46

\* ---- C8.  Claim: a key whose fetch raises is logged and skipped, the other
\* keys are still fetched; the exporter ends with status 1 and no output file
\* exactly when no key was fetched, and otherwise writes one table with the
\* columns ts and every fetched key.
RECURSIVE KeysOf(_)
KeysOf(frames) ==
    IF frames = << >> THEN << >> ELSE <<Head(frames).cols[2]>> \o KeysOf(Tail(frames))

ExporterContract ==
    estage \in {"done", "exit"} =>
        /\ Len(dfs) + Len(elog) = Len(TELEMETRY_KEYS)
        /\ (eexit = 1 /\ csvOut = NoFrame) <=> Len(dfs) = 0
        /\ Len(dfs) > 0 => (eexit = 0 /\ csvOut.cols = <<"ts">> \o KeysOf(dfs))


====
